---- MODULE Spec2Model ----
(***************************************************************************)
(* A model of protontricks' Steam metadata discovery (steam.py): locating  *)
(* the Steam installation, enumerating library folders, building the app   *)
(* inventory and resolving the Proton installation in use.                 *)
(*                                                                         *)
(* Conventions.  A Python str whose ordering matters (an app or compat     *)
(* tool name) is the sequence of its code points; a filesystem path is a   *)
(* TLA+ string built with PathJoin.  An optional value (None or a value)   *)
(* is <<>> or <<v>>.  A raised exception is recorded in the variable       *)
(* "raised"; a call that raised has returned nothing.                      *)
(***************************************************************************)
EXTENDS Integers, Sequences, FiniteSets, TLC

VARIABLES
    \* ---- find_proton_app / find_steam_proton_app / get_proton_appid
    PROTON_VERSION,     \* os.environ.get("PROTON_VERSION")
    appid,              \* the appid argument (optional)
    steam_apps,         \* the inventory passed in (sorted by name)
    vdf_data,           \* config.vdf as parsed; None until it is read
    appinfo_vdf,        \* appinfo.vdf as read; None until it is opened
    pc,                 \* position inside the resolver call
    compat_tool_name,   \* local of find_steam_proton_app (optional)
    proton_appid,       \* local of find_steam_proton_app (optional)
    proton_app,         \* the value returned (optional SteamApp)
    raised,             \* "" or the name of the exception that propagated
    trace,              \* inventory searches made and errors logged
    \* ---- get_steam_lib_paths
    lib_fs,             \* the directories and files that exist under steam_path
    folders_vdf,        \* libraryfolders.vdf as parsed; None until it is read
    lib_pc,             \* "call", "returned" or "raised"
    lib_paths,          \* the list returned
    lib_raised,         \* "" or the name of the exception that propagated
    \* ---- find_steam_path
    STEAM_DIR,          \* os.environ.get("STEAM_DIR")
    home_fs,            \* the directories that exist
    path_pc,            \* "call" or "returned"
    found_path,         \* the first value returned (optional)
    found_root,         \* the second value returned (optional)
    probed,             \* the candidates the loop has tested, in order
    \* ---- get_steam_apps
    apps_fs,            \* the directories and files that exist
    appmanifests,       \* the manifests globbed, by directory; None until read
    comptool_files,     \* the compatibilitytool.vdf files; None until read
    shortcuts_vdf,      \* shortcuts.vdf: None until read, Some(None) if missing
    apps_pc,            \* "call", "returned" or "raised"
    scanned,            \* steam_apps before the filter (line 727)
    inventory,          \* the list returned
    \* ---- get_appid_from_shortcut
    crc32,              \* zlib.crc32(data) & 0xffffffff, as two 16-bit limbs
    shortcut_ids,       \* the values returned by the calls made so far
    \* ---- run_command
    environ,            \* os.environ: variable name -> value
    environ_at_call,    \* os.environ as it was when run_command was called
    environ_copy,       \* local of run_command
    steam_runtime_path, \* argument of run_command (optional)
    tmp_dirs,           \* the temporary directories that exist
    wine_bin_dir,       \* local of run_command (optional)
    run_pc,             \* "call", "run", "returned" or "raised"
    run_raised,         \* "" or the name of the exception that propagated
    \* ---- get_appinfo_sections
    appinfo_data,       \* appinfo.vdf: its records and its length in bytes
    cursor,             \* the byte cursor i
    appinfo_sections,   \* the documents decoded so far
    section_log,        \* per section read: cursor, entry_size and outcome
    appinfo_pc,         \* "open", "loop", "returned" or "raised"
    appinfo_raised,     \* "" or the name of the exception that propagated
    \* ---- find_current_steamid3
    loginusers,         \* loginusers.vdf: None until read
    steamid3,           \* the value returned (optional)
    login_pc,           \* "call", "returned" or "raised"
    login_raised        \* "" or the name of the exception that propagated

resolverVars == << PROTON_VERSION, appid, steam_apps, vdf_data, appinfo_vdf,
                   pc, compat_tool_name, proton_appid, proton_app, raised,
                   trace >>

libVars == << lib_fs, folders_vdf, lib_pc, lib_paths, lib_raised >>

pathVars == << STEAM_DIR, home_fs, path_pc, found_path, found_root, probed >>

appsVars == << apps_fs, appmanifests, comptool_files, shortcuts_vdf, apps_pc,
               scanned, inventory >>

shortcutVars == << crc32, shortcut_ids >>

runVars == << environ, environ_at_call, environ_copy, steam_runtime_path,
              tmp_dirs, wine_bin_dir, run_pc, run_raised >>

appinfoVars == << appinfo_data, cursor, appinfo_sections, section_log,
                  appinfo_pc, appinfo_raised >>

loginVars == << loginusers, steamid3, login_pc, login_raised >>

toolVars == << shortcutVars, runVars, appinfoVars, loginVars >>

vars == << resolverVars, libVars, pathVars, appsVars, toolVars >>

----------------------------------------------------------------------------
(* Python values *)

None == << >>
Some(x) == << x >>

\* Truthiness of an optional str: neither None nor "".
Truthy(o) == o /= None /\ Len(o[1]) > 0

Min(S) == CHOOSE x \in S : \A y \in S : x <= y

\* A Python int that may need 32 bits (an app id) is the pair of its high
\* and low 16 bits.
int(n) == << n \div 65536, n % 65536 >>
Zero == << 0, 0 >>

\* Division of such an int by ten: quotient and remainder
DivMod10(w) ==
    LET t == (w[1] % 10) * 65536 + w[2]
    IN  [ q |-> << w[1] \div 10, t \div 10 >>, r |-> t % 10 ]

DecimalDigits == << "0", "1", "2", "3", "4", "5", "6", "7", "8", "9" >>

\* str(n) of an int: its decimal digits
RECURSIVE str_int(_)
str_int(w) ==
    LET d == DivMod10(w) IN
    IF d.q = Zero THEN DecimalDigits[d.r + 1]
    ELSE str_int(d.q) \o DecimalDigits[d.r + 1]

\* Ordinal (code point) comparison of two strs, as Python compares str.
RECURSIVE StrLess(_, _)
StrLess(a, b) ==
    IF b = << >> THEN FALSE
    ELSE IF a = << >> THEN TRUE
    ELSE IF Head(a) /= Head(b) THEN Head(a) < Head(b)
    ELSE StrLess(Tail(a), Tail(b))

StrLeq(a, b) == a = b \/ StrLess(a, b)

\* Names used for compat tools and apps: "p7", "p8", "p9".
Name_p7 == << 112, 55 >>
Name_p8 == << 112, 56 >>
Name_p9 == << 112, 57 >>
EmptyStr == << >>

----------------------------------------------------------------------------
(* SteamApp *)

SteamApp(name, install_path, prefix_path, app_id) ==
    [ appid        |-> IF app_id /= None /\ app_id[1] /= Zero THEN app_id
                      ELSE None,
      name         |-> name,
      prefix_path  |-> prefix_path,
      install_path |-> install_path ]

\* Is the list ordered by name, as get_steam_apps leaves it
IsSortedByName(apps) ==
    \A i \in 1..Len(apps) - 1 : StrLeq(apps[i].name, apps[i + 1].name)

----------------------------------------------------------------------------
(* config.vdf *)

\* A mapping subtree maps app id keys to entries; an entry is represented
\* by its "name" field: None when the entry has no such field.
MappingKeys == { "0", "440" }
NameFields == { None, Some(EmptyStr), Some(Name_p7), Some(Name_p8) }
Mappings == UNION { [D -> NameFields] : D \in SUBSET MappingKeys }
EmptyDict == << >>

\* str(appid)
str_appid(a) == IF a = None THEN "None" ELSE str_int(a[1])

\* vdf_data[...]["ToolMapping"] with KeyError -> {}
tool_mapping(cfg) ==
    IF cfg.ToolMapping = None THEN EmptyDict ELSE cfg.ToolMapping[1]

\* vdf_data[...]["CompatToolMapping"] with KeyError -> {}
compat_tool_mapping(cfg) ==
    IF cfg.CompatToolMapping = None THEN EmptyDict ELSE cfg.CompatToolMapping[1]

\* mapping.get(key, {}).get("name", None)
get_name(mapping, key) ==
    IF key \in DOMAIN mapping THEN mapping[key] ELSE None

\* Mutant: the legacy ToolMapping consulted before CompatToolMapping
potential_names_legacy_first(cfg, a) ==
    << get_name(tool_mapping(cfg), str_appid(a)),
       get_name(tool_mapping(cfg), "0"),
       get_name(compat_tool_mapping(cfg), str_appid(a)),
       get_name(compat_tool_mapping(cfg), "0") >>

potential_names(cfg, a) ==
    << get_name(compat_tool_mapping(cfg), str_appid(a)),
       get_name(compat_tool_mapping(cfg), "0"),
       get_name(tool_mapping(cfg), str_appid(a)),
       get_name(tool_mapping(cfg), "0") >>

\* next(name for name in potential_names if name); None models StopIteration
first_valid_name(names) ==
    LET S == { i \in 1..Len(names) : Truthy(names[i]) }
    IN  IF S = {} THEN None ELSE names[Min(S)]

----------------------------------------------------------------------------
(* appinfo.vdf *)

\* The file is its magic and the decoded sections; a section is the ordered
\* items of its appinfo.extended.compat_tools (<< >> when it has none).
\* An entry's "aliases" field is absent, a str, a list of str, or another
\* type.

AliasList(entry) ==
    << entry.name >> \o
        (IF entry.aliases.type \in { "str", "list" }
         THEN entry.aliases.value ELSE << >>)

InSeq(x, s) == \E i \in 1..Len(s) : s[i] = x

RECURSIVE Flatten(_)
Flatten(sections) ==
    IF sections = << >> THEN << >>
    ELSE Head(sections) \o Flatten(Tail(sections))

\* Mutant: only an entry's own key is compared, its aliases are ignored
RECURSIVE scan_compat_tools_keys_only(_, _)
scan_compat_tools_keys_only(entries, name) ==
    IF entries = << >> THEN [ raised |-> "", value |-> None ]
    ELSE LET entry == Head(entries) IN
         IF entry.aliases.type = "other"
         THEN [ raised |-> "TypeError", value |-> None ]
         ELSE IF entry.name = name
         THEN [ raised |-> "", value |-> Some(entry.appid) ]
         ELSE scan_compat_tools_keys_only(Tail(entries), name)

\* for section in vdf_sections: for default_name, entry in compat_tools.items()
RECURSIVE scan_compat_tools(_, _)
scan_compat_tools(entries, name) ==
    IF entries = << >> THEN [ raised |-> "", value |-> None ]
    ELSE LET entry == Head(entries) IN
         IF entry.aliases.type = "other"
         THEN [ raised |-> "TypeError", value |-> None ]
         ELSE IF InSeq(name, AliasList(entry))
         THEN [ raised |-> "", value |-> Some(entry.appid) ]
         ELSE scan_compat_tools(Tail(entries), name)

\* The magic check of get_appinfo_sections
get_appinfo_sections(file) ==
    IF ~file.magic_ok
    THEN [ raised |-> "SyntaxError", value |-> << >> ]
    ELSE [ raised |-> "", value |-> file.sections ]

get_proton_appid(name, file) ==
    LET vdf_sections == get_appinfo_sections(file) IN
    IF vdf_sections.raised /= ""
    THEN [ raised |-> vdf_sections.raised, value |-> None ]
    ELSE scan_compat_tools(Flatten(vdf_sections.value), name)

----------------------------------------------------------------------------
(* Inventory searches *)

\* next(app for app in steam_apps if app.name == name)
app_by_name(apps, name) ==
    LET S == { i \in 1..Len(apps) : apps[i].name = name }
    IN  IF S = {} THEN None ELSE Some(apps[Min(S)])

\* next(app for app in steam_apps if app.appid == id)
app_by_appid(apps, id) ==
    LET S == { i \in 1..Len(apps) : apps[i].appid = Some(id) }
    IN  IF S = {} THEN None ELSE Some(apps[Min(S)])

----------------------------------------------------------------------------
(* The resolver call, step by step *)

\* Mutant: an override that matches nothing falls through to config.vdf
FindProtonApp_fallthrough ==
    /\ pc = "find_proton_app"
    /\ UNCHANGED << libVars, pathVars, appsVars, toolVars >>
    /\ LET found == IF Truthy(PROTON_VERSION)
                    THEN app_by_name(steam_apps, PROTON_VERSION[1]) ELSE None
       IN IF found /= None
          THEN /\ proton_app' = found
               /\ trace' = trace \o << "search:name" >>
               /\ pc' = "returned"
          ELSE /\ pc' = "find_steam_proton_app"
               /\ UNCHANGED << proton_app, trace >>
    /\ UNCHANGED << PROTON_VERSION, appid, steam_apps, vdf_data, appinfo_vdf,
                    compat_tool_name, proton_appid, raised >>

\* find_proton_app: the $PROTON_VERSION branch, else enter
\* find_steam_proton_app
FindProtonApp ==
    /\ pc = "find_proton_app"
    /\ UNCHANGED << libVars, pathVars, appsVars, toolVars >>
    /\ IF Truthy(PROTON_VERSION)
       THEN LET found == app_by_name(steam_apps, PROTON_VERSION[1]) IN
            /\ proton_app' = found
            /\ trace' = trace \o << "search:name" >> \o
                   (IF found = None
                    THEN << "error:proton_version_not_found" >> ELSE << >>)
            /\ pc' = "returned"
       ELSE /\ pc' = "find_steam_proton_app"
            /\ UNCHANGED << proton_app, trace >>
    /\ UNCHANGED << PROTON_VERSION, appid, steam_apps, vdf_data, appinfo_vdf,
                    compat_tool_name, proton_appid, raised >>

\* find_steam_proton_app: read config.vdf (its contents cfg) and choose the
\* compat tool name
ReadConfig(cfg) ==
    /\ pc = "find_steam_proton_app"
    /\ UNCHANGED << libVars, pathVars, appsVars, toolVars >>
    /\ vdf_data' = Some(cfg)
    /\ LET name == first_valid_name(potential_names(cfg, appid)) IN
       /\ compat_tool_name' = name
       /\ IF name = None
          THEN /\ trace' = trace \o << "error:no_proton_in_config" >>
               /\ pc' = "returned"
          ELSE /\ trace' = trace
               /\ pc' = "option1"
    /\ UNCHANGED << PROTON_VERSION, appid, steam_apps, appinfo_vdf,
                    proton_appid, proton_app, raised >>

\* Mutant: the catalog is consulted whatever the name search found
SearchByName_always_option2 ==
    /\ pc = "option1"
    /\ UNCHANGED << libVars, pathVars, appsVars, toolVars >>
    /\ proton_app' = app_by_name(steam_apps, compat_tool_name[1])
    /\ pc' = "option2"
    /\ trace' = trace \o << "search:name" >>
    /\ UNCHANGED << PROTON_VERSION, appid, steam_apps, vdf_data, appinfo_vdf,
                    compat_tool_name, proton_appid, raised >>

\* Option 1: a SteamApp named like the compat tool
SearchByName ==
    /\ pc = "option1"
    /\ UNCHANGED << libVars, pathVars, appsVars, toolVars >>
    /\ LET found == app_by_name(steam_apps, compat_tool_name[1]) IN
       /\ proton_app' = found
       /\ pc' = IF found = None THEN "option2" ELSE "returned"
    /\ trace' = trace \o << "search:name" >>
    /\ UNCHANGED << PROTON_VERSION, appid, steam_apps, vdf_data, appinfo_vdf,
                    compat_tool_name, proton_appid, raised >>

\* Mutant: a SyntaxError or TypeError is caught and becomes "not found"
GetProtonAppid_caught(file) ==
    /\ pc = "option2"
    /\ UNCHANGED << libVars, pathVars, appsVars, toolVars >>
    /\ appinfo_vdf' = Some(file)
    /\ LET r == get_proton_appid(compat_tool_name[1], file) IN
       /\ proton_appid' = r.value
       /\ IF r.value = None \/ r.value[1] = Zero
          THEN /\ pc' = "returned"
               /\ trace' = trace \o << "error:no_appid_in_appinfo" >>
          ELSE /\ pc' = "search_appid"
               /\ trace' = trace
    /\ UNCHANGED << PROTON_VERSION, appid, steam_apps, vdf_data,
                    compat_tool_name, proton_app, raised >>

\* Option 2: the Proton app id from appinfo.vdf (its contents file)
GetProtonAppid(file) ==
    /\ pc = "option2"
    /\ UNCHANGED << libVars, pathVars, appsVars, toolVars >>
    /\ appinfo_vdf' = Some(file)
    /\ LET r == get_proton_appid(compat_tool_name[1], file) IN
       IF r.raised /= ""
       THEN /\ raised' = r.raised
            /\ pc' = "raised"
            /\ UNCHANGED << proton_appid, trace >>
       ELSE /\ proton_appid' = r.value
            /\ UNCHANGED raised
            /\ IF r.value = None \/ r.value[1] = Zero
               THEN /\ pc' = "returned"
                    /\ trace' = trace \o
                           ((IF r.value = None
                             THEN << "error:no_manifest_in_appinfo" >>
                             ELSE << >>) \o
                            << "error:no_appid_in_appinfo" >>)
               ELSE /\ pc' = "search_appid"
                    /\ trace' = trace
    /\ UNCHANGED << PROTON_VERSION, appid, steam_apps, vdf_data,
                    compat_tool_name, proton_app >>

\* The SteamApp with that app id
SearchByAppid ==
    /\ pc = "search_appid"
    /\ UNCHANGED << libVars, pathVars, appsVars, toolVars >>
    /\ proton_app' = app_by_appid(steam_apps, proton_appid[1])
    /\ trace' = trace \o << "search:appid" >>
    /\ pc' = "returned"
    /\ UNCHANGED << PROTON_VERSION, appid, steam_apps, vdf_data, appinfo_vdf,
                    compat_tool_name, proton_appid, raised >>

----------------------------------------------------------------------------
(* Inputs of the resolver *)

MaxApps == 2
MaxAppsConfig == 1
MaxEntries == 2

AppIds == { int(1), int(2) }

SeqsUpTo(S, n) == UNION { [1..k -> S] : k \in 0..n }

\* Inventory records: custom installs have no appid
ResolverApps ==
    { SteamApp(n, "/lib/steamapps/common/Proton", None, i) :
        n \in { Name_p7, Name_p8 },
        i \in { None } \cup { Some(k) : k \in AppIds } }

Inventories(n) ==
    { s \in SeqsUpTo(ResolverApps, n) : IsSortedByName(s) }

\* Inventories of custom installs and of one Steam build of "p7"
ConfigInventories(n) ==
    { s \in Inventories(n) :
        \A i \in 1..Len(s) :
            \/ s[i].appid = None
            \/ s[i].name = Name_p7 /\ s[i].appid = Some(int(1)) }

OptionalMappings == { None } \cup { Some(m) : m \in Mappings }

Configs == [ ToolMapping : OptionalMappings,
             CompatToolMapping : OptionalMappings ]

\* Configurations with at most a default entry in CompatToolMapping
FewConfigs ==
    { c \in Configs :
        /\ c.ToolMapping = None
        /\ c.CompatToolMapping /= None
        /\ DOMAIN c.CompatToolMapping[1] = { "0" }
        /\ c.CompatToolMapping[1]["0"] /= Some(EmptyStr) }

AliasFields ==
    { [ type |-> "absent", value |-> << >> ],
      [ type |-> "str",    value |-> << Name_p8 >> ],
      [ type |-> "list",   value |-> << Name_p7, Name_p8 >> ],
      [ type |-> "other",  value |-> << >> ] }

\* An entry keyed "p7" without aliases, or keyed "p9" with any aliases field
CatalogEntries ==
    { e \in [ name : { Name_p7, Name_p9 }, aliases : AliasFields,
              appid : AppIds ] :
        e.name = Name_p7 => e.aliases.type = "absent" }

HasUniqueKeys(section) ==
    \A i, j \in 1..Len(section) :
        section[i].name = section[j].name => i = j

CatalogSections ==
    { s \in SeqsUpTo(CatalogEntries, MaxEntries) : HasUniqueKeys(s) }

\* At most two sections, holding at most MaxEntries entries between them
Catalogs ==
    { [ magic_ok |-> FALSE, sections |-> << >> ] } \cup
    { [ magic_ok |-> TRUE, sections |-> s ] :
        s \in { t \in SeqsUpTo(CatalogSections, 2) :
                  Len(Flatten(t)) <= MaxEntries } }

\* The catalogs with a single "p7" entry, and the one with a wrong magic
FewCatalogs ==
    { c \in Catalogs :
        \/ ~c.magic_ok
        \/ /\ Len(c.sections) = 1
           /\ Len(c.sections[1]) = 1
           /\ c.sections[1][1].name = Name_p7 }

ShortcutIdle ==
    /\ crc32 = << 0, 0 >>
    /\ shortcut_ids = << >>

RunIdle ==
    /\ environ = << >>
    /\ environ_at_call = << >>
    /\ environ_copy = << >>
    /\ steam_runtime_path = None
    /\ tmp_dirs = {}
    /\ wine_bin_dir = None
    /\ run_pc = "idle"
    /\ run_raised = ""

AppinfoIdle ==
    /\ appinfo_data = << >>
    /\ cursor = 0
    /\ appinfo_sections = << >>
    /\ section_log = << >>
    /\ appinfo_pc = "idle"
    /\ appinfo_raised = ""

LoginIdle ==
    /\ loginusers = None
    /\ steamid3 = None
    /\ login_pc = "idle"
    /\ login_raised = ""

\* None of the helpers is running
ToolsIdle ==
    /\ ShortcutIdle
    /\ RunIdle
    /\ AppinfoIdle
    /\ LoginIdle

\* get_steam_apps is not running
AppsIdle ==
    /\ ToolsIdle
    /\ apps_fs = {}
    /\ appmanifests = None
    /\ comptool_files = None
    /\ shortcuts_vdf = None
    /\ apps_pc = "idle"
    /\ scanned = << >>
    /\ inventory = << >>

\* find_steam_path is not running
PathIdle ==
    /\ AppsIdle
    /\ STEAM_DIR = None
    /\ home_fs = {}
    /\ path_pc = "idle"
    /\ found_path = None
    /\ found_root = None
    /\ probed = << >>

\* get_steam_lib_paths is not running
LibIdle ==
    /\ PathIdle
    /\ lib_fs = {}
    /\ folders_vdf = None
    /\ lib_pc = "idle"
    /\ lib_paths = << >>
    /\ lib_raised = ""

ResolverStart ==
    /\ LibIdle
    /\ pc = "find_proton_app"
    /\ vdf_data = None
    /\ appinfo_vdf = None
    /\ compat_tool_name = None
    /\ proton_appid = None
    /\ proton_app = None
    /\ raised = ""
    /\ trace = << >>

\* The resolver, with every catalog and few configurations
Init ==
    /\ PROTON_VERSION \in { None, Some(Name_p8) }
    /\ appid = Some(int(440))
    /\ steam_apps \in Inventories(MaxApps)
    /\ ResolverStart

Next ==
    \/ FindProtonApp
    \/ pc = "find_steam_proton_app" /\ \E cfg \in FewConfigs : ReadConfig(cfg)
    \/ SearchByName
    \/ pc = "option2" /\ \E file \in Catalogs : GetProtonAppid(file)
    \/ SearchByAppid

Spec == Init /\ [][Next]_vars

\* The resolver, with every configuration and few catalogs: every inventory
\* when PROTON_VERSION selects the name, fewer when config.vdf is read
InitConfig ==
    /\ \/ /\ PROTON_VERSION = Some(Name_p7)
          /\ steam_apps \in Inventories(MaxApps)
       \/ /\ PROTON_VERSION \in { None, Some(EmptyStr) }
          /\ steam_apps \in ConfigInventories(MaxAppsConfig)
    /\ appid \in { None, Some(int(440)) }
    /\ ResolverStart

NextConfig ==
    \/ FindProtonApp
    \/ pc = "find_steam_proton_app" /\ \E cfg \in Configs : ReadConfig(cfg)
    \/ SearchByName
    \/ pc = "option2" /\ \E file \in FewCatalogs : GetProtonAppid(file)
    \/ SearchByAppid

SpecConfig == InitConfig /\ [][NextConfig]_vars

----------------------------------------------------------------------------
(* Properties of the resolver *)

\* The record at the lowest index of apps that satisfies the name test
IsFirstNamed(o, apps, name) ==
    \E i \in 1..Len(apps) :
        /\ apps[i].name = name
        /\ \A j \in 1..(i - 1) : apps[j].name /= name
        /\ o = Some(apps[i])

HasNamed(apps, name) == \E i \in 1..Len(apps) : apps[i].name = name

IsFirstWithId(o, apps, id) ==
    \E i \in 1..Len(apps) :
        /\ apps[i].appid = Some(id)
        /\ \A j \in 1..(i - 1) : apps[j].appid /= Some(id)
        /\ o = Some(apps[i])

HasId(apps, id) == \E i \in 1..Len(apps) : apps[i].appid = Some(id)

\* C1: with $PROTON_VERSION set to a non-empty name, find_proton_app
\* returns the first inventory record with exactly that name, or None when
\* there is none; find_steam_proton_app is never entered, so neither
\* config.vdf nor appinfo.vdf is read.
C1_OverrideIsFinal ==
    Truthy(PROTON_VERSION) =>
        /\ pc \in { "find_proton_app", "returned" }
        /\ vdf_data = None
        /\ appinfo_vdf = None
        /\ raised = ""
        /\ pc = "returned" =>
              IF HasNamed(steam_apps, PROTON_VERSION[1])
              THEN IsFirstNamed(proton_app, steam_apps, PROTON_VERSION[1])
              ELSE proton_app = None

C1_Witness ==
    /\ pc = "returned"
    /\ PROTON_VERSION = Some(Name_p7)
    /\ steam_apps /= << >>
    /\ proton_app = None

\* The four candidate names of the claim, read directly off the document
C2_NameAt(mapping, key) ==
    IF mapping = None THEN None
    ELSE IF key \in DOMAIN mapping[1] THEN mapping[1][key] ELSE None

C2_Candidates ==
    LET cfg == vdf_data[1]
        key == IF appid = None THEN "None" ELSE "440"
    IN  << C2_NameAt(cfg.CompatToolMapping, key),
           C2_NameAt(cfg.CompatToolMapping, "0"),
           C2_NameAt(cfg.ToolMapping, key),
           C2_NameAt(cfg.ToolMapping, "0") >>

C2_NonEmpty(o) == o /= None /\ o /= Some(EmptyStr)

\* C2: without an override, the name used for lookup is the first non-empty
\* of CompatToolMapping[appid].name, CompatToolMapping["0"].name,
\* ToolMapping[appid].name, ToolMapping["0"].name; the call ends with the
\* "no Proton installation in config.vdf" error exactly when all four are
\* absent or empty, and then neither the inventory nor appinfo.vdf is
\* searched.
C2_FirstNonEmptyName ==
    vdf_data /= None =>
        LET c == C2_Candidates IN
        /\ \A i \in 1..4 :
              (C2_NonEmpty(c[i]) /\ \A j \in 1..(i - 1) : ~C2_NonEmpty(c[j]))
                  => compat_tool_name = c[i]
        /\ (\A i \in 1..4 : ~C2_NonEmpty(c[i]))
              <=> InSeq("error:no_proton_in_config", trace)
        /\ InSeq("error:no_proton_in_config", trace) =>
              /\ pc = "returned"
              /\ compat_tool_name = None
              /\ proton_app = None
              /\ appinfo_vdf = None
              /\ ~InSeq("search:name", trace)
              /\ ~InSeq("search:appid", trace)

C2_Witness ==
    /\ vdf_data /= None
    /\ appid = Some(int(440))
    /\ LET c == C2_Candidates IN
       /\ c[1] = Some(EmptyStr)
       /\ c[2] = None
       /\ c[3] = Some(Name_p8)
       /\ c[4] = Some(Name_p7)
       /\ compat_tool_name = Some(Name_p8)
    /\ pc = "returned"

\* C3: when the inventory holds a record named like the selected compat
\* tool, that record (the first such) is returned and appinfo.vdf is never
\* opened; appinfo.vdf is opened only after the name search has been made
\* and found nothing.
C3_FastPath ==
    /\ (compat_tool_name /= None /\ HasNamed(steam_apps, compat_tool_name[1])) =>
          /\ appinfo_vdf = None
          /\ pc \in { "option1", "returned" }
          /\ pc = "returned" =>
                IsFirstNamed(proton_app, steam_apps, compat_tool_name[1])
    /\ appinfo_vdf /= None =>
          /\ compat_tool_name /= None
          /\ InSeq("search:name", trace)
          /\ ~HasNamed(steam_apps, compat_tool_name[1])

C3_Witness ==
    /\ pc = "returned"
    /\ PROTON_VERSION = None
    /\ compat_tool_name = Some(Name_p8)
    /\ Len(steam_apps) = 2
    /\ proton_app = Some(steam_apps[2])
    /\ steam_apps[1].name /= Name_p8
    /\ appinfo_vdf = None

\* Does the entry answer to the name: by its own key, by an aliases str, or
\* by a member of an aliases list
C4_Answers(entry, name) ==
    \/ entry.name = name
    \/ entry.aliases.type = "str" /\ entry.aliases.value = << name >>
    \/ entry.aliases.type = "list" /\ InSeq(name, entry.aliases.value)

\* The positions << section, item >> of the catalog, in file order
C4_Positions(file) ==
    { p \in (1..Len(file.sections)) \X (1..MaxEntries) :
        p[2] <= Len(file.sections[p[1]]) }

C4_Before(p, q) == p[1] < q[1] \/ (p[1] = q[1] /\ p[2] < q[2])

C4_WellFormed(file) ==
    /\ file.magic_ok
    /\ \A p \in C4_Positions(file) :
          file.sections[p[1]][p[2]].aliases.type /= "other"

\* C4: when no inventory record is named like the selected compat tool and
\* the catalog is well formed, the resolved id is the appid of the first
\* compat_tools entry (in file order) whose key or aliases contain the
\* name; the record returned is the first inventory record with that
\* appid, and None is returned when no entry matches or no record has it.
C4_Fallback ==
    (appinfo_vdf /= None /\ C4_WellFormed(appinfo_vdf[1])) =>
        LET file == appinfo_vdf[1]
            name == compat_tool_name[1]
            hits == { p \in C4_Positions(file) :
                        C4_Answers(file.sections[p[1]][p[2]], name) }
        IN  /\ raised = ""
            /\ pc \in { "search_appid", "returned" }
            /\ IF hits = {}
               THEN /\ proton_appid = None
                    /\ pc = "returned"
                    /\ proton_app = None
               ELSE \E p \in hits :
                      /\ \A q \in hits : ~C4_Before(q, p)
                      /\ LET id == file.sections[p[1]][p[2]].appid IN
                         /\ proton_appid = Some(id)
                         /\ pc = "returned" =>
                               IF HasId(steam_apps, id)
                               THEN IsFirstWithId(proton_app, steam_apps, id)
                               ELSE proton_app = None

\* Reached through an alias of the second section's entry, the first
\* section's entry not answering
C4_Witness ==
    /\ pc = "returned"
    /\ appinfo_vdf /= None
    /\ C4_WellFormed(appinfo_vdf[1])
    /\ Len(appinfo_vdf[1].sections) = 2
    /\ Len(appinfo_vdf[1].sections[1]) = 1
    /\ Len(appinfo_vdf[1].sections[2]) = 1
    /\ ~C4_Answers(appinfo_vdf[1].sections[1][1], compat_tool_name[1])
    /\ appinfo_vdf[1].sections[2][1].aliases.type = "list"
    /\ appinfo_vdf[1].sections[2][1].name /= compat_tool_name[1]
    /\ appinfo_vdf[1].sections[1][1].appid /= appinfo_vdf[1].sections[2][1].appid
    /\ proton_app /= None
    /\ proton_app[1].appid = Some(appinfo_vdf[1].sections[2][1].appid)

\* A format error is met by the catalog lookup: a wrong magic, or an
\* aliases field of another type at an entry no answering entry precedes
C5_FormatError(file, name) ==
    \/ ~file.magic_ok
    \/ \E p \in C4_Positions(file) :
          /\ file.sections[p[1]][p[2]].aliases.type = "other"
          /\ \A q \in C4_Positions(file) :
                C4_Before(q, p) =>
                    /\ file.sections[q[1]][q[2]].aliases.type /= "other"
                    /\ ~C4_Answers(file.sections[q[1]][q[2]], name)

\* C5 as claimed: a format error met during the catalog fallback is caught
\* and the call returns None.
C5_FormatErrorIsNotFound ==
    (appinfo_vdf /= None /\ C5_FormatError(appinfo_vdf[1], compat_tool_name[1])) =>
        /\ pc = "returned"
        /\ raised = ""
        /\ proton_app = None

\* C5 as amended: a format error met during the catalog fallback is not
\* caught by the resolver; the SyntaxError (wrong magic) or TypeError
\* (aliases of another type) propagates to the caller and nothing is
\* returned.
C5_FormatErrorPropagates ==
    /\ (appinfo_vdf /= None
        /\ C5_FormatError(appinfo_vdf[1], compat_tool_name[1])) =>
          /\ pc = "raised"
          /\ raised = IF appinfo_vdf[1].magic_ok THEN "TypeError"
                      ELSE "SyntaxError"
          /\ proton_app = None
          /\ ~InSeq("search:appid", trace)
    /\ pc = "raised" =>
          /\ appinfo_vdf /= None
          /\ C5_FormatError(appinfo_vdf[1], compat_tool_name[1])

C5_Witness ==
    /\ pc = "raised"
    /\ raised = "TypeError"
    /\ Len(appinfo_vdf[1].sections) = 2
    /\ Len(appinfo_vdf[1].sections[1]) = 1
    /\ Len(appinfo_vdf[1].sections[2]) = 1
    /\ appinfo_vdf[1].sections[2][1].aliases.type = "other"
    /\ steam_apps /= << >>

----------------------------------------------------------------------------
(* get_steam_lib_paths *)

\* os.path.join
PathJoin(a, b) == a \o "/" \o b

steam_path == "/steam"

\* The paths get_steam_lib_paths looks at
LibTreePaths ==
    { PathJoin(steam_path, "steamapps"),
      PathJoin(steam_path, "SteamApps"),
      PathJoin(PathJoin(steam_path, "steamapps"), "libraryfolders.vdf"),
      PathJoin(PathJoin(steam_path, "SteamApps"), "libraryfolders.vdf") }

\* str.isdigit on the keys of the manifest: "0".."9" are code points 48..57
isdigit(key) ==
    /\ key /= << >>
    /\ \A i \in 1..Len(key) : key[i] \in 48..57

\* [value for key, value in vdf_data["LibraryFolders"].items()
\*  if key.isdigit()], items in the mapping's iteration order
RECURSIVE parse_library_folders(_)
parse_library_folders(items) ==
    IF items = << >> THEN << >>
    ELSE (IF isdigit(Head(items).key) THEN << Head(items).value >> ELSE << >>)
         \o parse_library_folders(Tail(items))

\* The path assigned to folders_vdf_path; None when neither branch of the
\* if/elif assigns it
folders_vdf_path(fs) ==
    IF PathJoin(steam_path, "steamapps") \in fs
    THEN Some(PathJoin(PathJoin(steam_path, "steamapps"), "libraryfolders.vdf"))
    ELSE IF PathJoin(steam_path, "SteamApps") \in fs
    THEN Some(PathJoin(PathJoin(steam_path, "SteamApps"), "libraryfolders.vdf"))
    ELSE None

\* get_steam_lib_paths(steam_path); items is the LibraryFolders subtree of
\* the manifest, read when the file can be opened
GetSteamLibPaths(items) ==
    /\ lib_pc = "call"
    /\ LET path == folders_vdf_path(lib_fs) IN
       IF path = None
       THEN \* open(folders_vdf_path) names an unassigned local
            /\ lib_pc' = "raised"
            /\ lib_raised' = "UnboundLocalError"
            /\ UNCHANGED << folders_vdf, lib_paths >>
       ELSE IF path[1] \notin lib_fs
       THEN \* OSError: library_folders = []
            /\ lib_pc' = "returned"
            /\ lib_paths' = << steam_path >>
            /\ UNCHANGED << folders_vdf, lib_raised >>
       ELSE /\ folders_vdf' = Some(items)
            /\ lib_pc' = "returned"
            /\ lib_paths' = << steam_path >> \o parse_library_folders(items)
            /\ UNCHANGED lib_raised
    /\ UNCHANGED lib_fs
    /\ UNCHANGED << resolverVars, pathVars, appsVars, toolVars >>

(* Inputs of get_steam_lib_paths *)

MaxFolders == 3

\* Keys "0", "1", "10" and "TimeNextStatsReport" (shortened to "T")
FolderKeys == { << 48 >>, << 49 >>, << 49, 48 >>, << 84 >> }
FolderValues == { "/mnt/a", "/mnt/b" }

HasDistinctKeys(items) ==
    \A i, j \in 1..Len(items) : items[i].key = items[j].key => i = j

\* The LibraryFolders subtree, as the items of the mapping in the order it
\* iterates them
FolderManifests ==
    { m \in SeqsUpTo([ key : FolderKeys, value : FolderValues ], MaxFolders) :
        HasDistinctKeys(m) }

\* A file exists only inside an existing directory
LibTrees ==
    { fs \in SUBSET LibTreePaths :
        \A d \in { "steamapps", "SteamApps" } :
            PathJoin(PathJoin(steam_path, d), "libraryfolders.vdf") \in fs
                => PathJoin(steam_path, d) \in fs }

\* resolver not running
ResolverIdle ==
    /\ PROTON_VERSION = None
    /\ appid = None
    /\ steam_apps = << >>
    /\ vdf_data = None
    /\ appinfo_vdf = None
    /\ pc = "idle"
    /\ compat_tool_name = None
    /\ proton_appid = None
    /\ proton_app = None
    /\ raised = ""
    /\ trace = << >>

InitLibPaths ==
    /\ ResolverIdle
    /\ PathIdle
    /\ lib_fs \in LibTrees
    /\ folders_vdf = None
    /\ lib_pc = "call"
    /\ lib_paths = << >>
    /\ lib_raised = ""

NextLibPaths == \E items \in FolderManifests : GetSteamLibPaths(items)

SpecLibPaths == InitLibPaths /\ [][NextLibPaths]_vars

(* Properties of get_steam_lib_paths *)

\* int(key) of a decimal digit string
RECURSIVE C6_IntOf(_)
C6_IntOf(key) ==
    IF key = << >> THEN 0
    ELSE 10 * C6_IntOf(SubSeq(key, 1, Len(key) - 1)) + (key[Len(key)] - 48)

C6_DigitPositions(items) == { i \in 1..Len(items) : isdigit(items[i].key) }

\* C6 as claimed: the library entries are returned in ascending numeric
\* order of their keys, whatever the order in which the manifest mapping
\* iterates them.
C6_AscendingKeyOrder ==
    (lib_pc = "returned" /\ folders_vdf /= None) =>
        LET items == folders_vdf[1]
            D == C6_DigitPositions(items)
            n == Cardinality(D)
        IN  /\ Len(lib_paths) = n + 1
            /\ \E f \in [1..n -> D] :
                  /\ \A i, j \in 1..n : i < j =>
                        C6_IntOf(items[f[i]].key) < C6_IntOf(items[f[j]].key)
                  /\ \A i \in 1..n : lib_paths[i + 1] = items[f[i]].value

\* What the code does: the entries come out in the mapping's iteration order
C6_IterationOrder ==
    (lib_pc = "returned" /\ folders_vdf /= None) =>
        LET items == folders_vdf[1]
            D == C6_DigitPositions(items)
            n == Cardinality(D)
        IN  /\ Len(lib_paths) = n + 1
            /\ lib_paths[1] = steam_path
            /\ \E f \in [1..n -> D] :
                  /\ \A i, j \in 1..n : i < j => f[i] < f[j]
                  /\ \A i \in 1..n : lib_paths[i + 1] = items[f[i]].value

C7_ManifestAbsent ==
    \A d \in { "steamapps", "SteamApps" } :
        PathJoin(PathJoin(steam_path, d), "libraryfolders.vdf") \notin lib_fs

\* C7 as claimed: with the manifest absent, get_steam_lib_paths returns
\* [steam_path] and raises nothing, whether or not a steamapps or SteamApps
\* directory exists.
C7_AbsentManifestDegrades ==
    (lib_pc /= "call" /\ C7_ManifestAbsent) =>
        /\ lib_pc = "returned"
        /\ lib_raised = ""
        /\ lib_paths = << steam_path >>

\* What the code does: the degradation needs one of the two directories
C7_AbsentManifestWithDirectory ==
    /\ (lib_pc /= "call" /\ C7_ManifestAbsent /\ folders_vdf_path(lib_fs) /= None) =>
          /\ lib_pc = "returned"
          /\ lib_raised = ""
          /\ lib_paths = << steam_path >>
    /\ (lib_pc /= "call" /\ folders_vdf_path(lib_fs) = None) =>
          /\ lib_pc = "raised"
          /\ lib_raised = "UnboundLocalError"

----------------------------------------------------------------------------
(* find_steam_path *)

\* os.path.expanduser("~"), Path.home()
home == "/home/user"

\* Mutant: the candidates in the opposite order
COMMON_STEAM_DIRS_reversed ==
    << PathJoin(PathJoin(".local", "share"), "Steam"),
       PathJoin(".steam", "steam") >>

COMMON_STEAM_DIRS ==
    << PathJoin(".steam", "steam"),
       PathJoin(PathJoin(".local", "share"), "Steam") >>

has_steamapps_dir(fs, path) ==
    \/ PathJoin(path, "steamapps") \in fs
    \/ PathJoin(path, "SteamApps") \in fs

has_runtime_dir(fs, path) == PathJoin(path, "ubuntu12_32") \in fs

\* steam_root after lines 173-177
default_steam_root(fs) ==
    LET steam_root == PathJoin(PathJoin(home, ".steam"), "root") IN
    IF PathJoin(steam_root, "ubuntu12_32") \notin fs
    THEN None ELSE Some(steam_root)

\* The for loop over COMMON_STEAM_DIRS from candidate i on: the candidates
\* tested and the pair returned
RECURSIVE probe_common_dirs(_, _, _)
probe_common_dirs(fs, i, steam_root) ==
    IF i > Len(COMMON_STEAM_DIRS)
    THEN [ probed |-> << >>, path |-> None, root |-> None ]
    ELSE LET candidate == PathJoin(home, COMMON_STEAM_DIRS[i]) IN
         IF has_steamapps_dir(fs, candidate)
         THEN [ probed |-> << candidate >>,
                path   |-> Some(candidate),
                root   |-> IF steam_root = None THEN Some(candidate)
                           ELSE steam_root ]
         ELSE LET rest == probe_common_dirs(fs, i + 1, steam_root) IN
              [ rest EXCEPT !.probed = << candidate >> \o @ ]

\* Mutant: an invalid $STEAM_DIR falls back to the common directories
FindSteamPath_fallback ==
    /\ path_pc = "call"
    /\ LET steam_root == default_steam_root(home_fs)
           r == probe_common_dirs(home_fs, 1, steam_root)
       IN
       IF /\ Truthy(STEAM_DIR)
          /\ has_steamapps_dir(home_fs, STEAM_DIR[1])
          /\ has_runtime_dir(home_fs, STEAM_DIR[1])
       THEN /\ found_path' = STEAM_DIR
            /\ found_root' = STEAM_DIR
            /\ probed' = << >>
       ELSE /\ found_path' = r.path
            /\ found_root' = r.root
            /\ probed' = r.probed
    /\ path_pc' = "returned"
    /\ UNCHANGED << STEAM_DIR, home_fs >>
    /\ UNCHANGED << resolverVars, libVars, appsVars, toolVars >>

\* find_steam_path()
FindSteamPath ==
    /\ path_pc = "call"
    /\ LET steam_root == default_steam_root(home_fs) IN
       IF Truthy(STEAM_DIR)
       THEN /\ probed' = << >>
            /\ IF /\ has_steamapps_dir(home_fs, STEAM_DIR[1])
                  /\ has_runtime_dir(home_fs, STEAM_DIR[1])
               THEN /\ found_path' = STEAM_DIR
                    /\ found_root' = STEAM_DIR
               ELSE /\ found_path' = None
                    /\ found_root' = None
       ELSE LET r == probe_common_dirs(home_fs, 1, steam_root) IN
            /\ found_path' = r.path
            /\ found_root' = r.root
            /\ probed' = r.probed
    /\ path_pc' = "returned"
    /\ UNCHANGED << STEAM_DIR, home_fs >>
    /\ UNCHANGED << resolverVars, libVars, appsVars, toolVars >>

(* Inputs of find_steam_path *)

OverrideDir == "/opt/steam"

\* The directories whose existence find_steam_path can observe
HomeTreeDirs ==
    { PathJoin(PathJoin(home, COMMON_STEAM_DIRS[i]), d) :
        i \in 1..Len(COMMON_STEAM_DIRS), d \in { "steamapps", "SteamApps" } }
    \cup { PathJoin(PathJoin(PathJoin(home, ".steam"), "root"), "ubuntu12_32") }
    \cup { PathJoin(OverrideDir, d) :
             d \in { "steamapps", "SteamApps", "ubuntu12_32" } }

InitSteamPath ==
    /\ ResolverIdle
    /\ AppsIdle
    /\ lib_fs = {}
    /\ folders_vdf = None
    /\ lib_pc = "idle"
    /\ lib_paths = << >>
    /\ lib_raised = ""
    /\ STEAM_DIR \in { None, Some(""), Some(OverrideDir) }
    /\ home_fs \in SUBSET HomeTreeDirs
    /\ path_pc = "call"
    /\ found_path = None
    /\ found_root = None
    /\ probed = << >>

NextSteamPath == FindSteamPath

SpecSteamPath == InitSteamPath /\ [][NextSteamPath]_vars

(* Properties of find_steam_path *)

C8_Candidate1 == "/home/user/.steam/steam"
C8_Candidate2 == "/home/user/.local/share/Steam"

C8_HasAppStorage(path) ==
    (path \o "/steamapps") \in home_fs \/ (path \o "/SteamApps") \in home_fs

C8_HasRuntimeCache(path) == (path \o "/ubuntu12_32") \in home_fs

C8_OverrideSet == STEAM_DIR /= None /\ STEAM_DIR /= Some("")

\* C8: with $STEAM_DIR set, find_steam_path returns it (as both values)
\* only if it has a steamapps or SteamApps subdirectory and an ubuntu12_32
\* subdirectory; otherwise it returns (None, None); in neither case is one
\* of the home-relative candidates probed or returned.
C8_OverrideIsFinal ==
    (C8_OverrideSet /\ path_pc = "returned") =>
        /\ probed = << >>
        /\ found_path \notin { Some(C8_Candidate1), Some(C8_Candidate2) }
        /\ found_root \notin { Some(C8_Candidate1), Some(C8_Candidate2) }
        /\ IF C8_HasAppStorage(STEAM_DIR[1]) /\ C8_HasRuntimeCache(STEAM_DIR[1])
           THEN found_path = STEAM_DIR /\ found_root = STEAM_DIR
           ELSE found_path = None /\ found_root = None

\* An override with app storage but no runtime cache, beside a valid
\* installation in ~/.steam/steam
C8_Witness ==
    /\ path_pc = "returned"
    /\ C8_OverrideSet
    /\ C8_HasAppStorage(STEAM_DIR[1])
    /\ ~C8_HasRuntimeCache(STEAM_DIR[1])
    /\ C8_HasAppStorage(C8_Candidate1)
    /\ C8_HasRuntimeCache("/home/user/.steam/root")
    /\ found_path = None
    /\ found_root = None

\* The install path of the claim: the first candidate with app storage
C9_InstallPath ==
    IF C8_HasAppStorage(C8_Candidate1) THEN Some(C8_Candidate1)
    ELSE IF C8_HasAppStorage(C8_Candidate2) THEN Some(C8_Candidate2)
    ELSE None

\* C9 as claimed: without an override the install path is the first
\* candidate with app storage, and the tool root is ~/.steam/root when that
\* has the runtime cache and the install path otherwise.
C9_RootIndependentOfPath ==
    (~C8_OverrideSet /\ path_pc = "returned") =>
        /\ found_path = C9_InstallPath
        /\ found_root = IF C8_HasRuntimeCache("/home/user/.steam/root")
                        THEN Some("/home/user/.steam/root")
                        ELSE found_path

\* C9 as amended: without an override the install path is the first
\* candidate with app storage; when one is found the tool root is
\* ~/.steam/root if that has the runtime cache and the install path
\* otherwise; when none is found both values are None, even if
\* ~/.steam/root has the runtime cache.  The tool root is None exactly when
\* the install path is.
C9_RootFollowsPath ==
    (~C8_OverrideSet /\ path_pc = "returned") =>
        /\ found_path = C9_InstallPath
        /\ found_root = IF found_path = None THEN None
                        ELSE IF C8_HasRuntimeCache("/home/user/.steam/root")
                        THEN Some("/home/user/.steam/root")
                        ELSE found_path
        /\ (found_root = None) <=> (found_path = None)
        /\ probed = IF C8_HasAppStorage(C8_Candidate1)
                    THEN << C8_Candidate1 >>
                    ELSE << C8_Candidate1, C8_Candidate2 >>

\* The second candidate found, through its SteamApps directory, with no
\* runtime cache in ~/.steam/root
C9_Witness ==
    /\ path_pc = "returned"
    /\ STEAM_DIR = Some("")
    /\ ~C8_HasAppStorage(C8_Candidate1)
    /\ "/home/user/.local/share/Steam/SteamApps" \in home_fs
    /\ "/home/user/.local/share/Steam/steamapps" \notin home_fs
    /\ ~C8_HasRuntimeCache("/home/user/.steam/root")
    /\ found_path = Some(C8_Candidate2)
    /\ found_root = Some(C8_Candidate2)

----------------------------------------------------------------------------
(* get_steam_apps *)

steam_root == "/steam"
steam_lib_paths == << steam_path, "/mnt/a" >>

\* The compatdata directory of an app in a library
CompatDataDir(lib, part, id) ==
    PathJoin(PathJoin(PathJoin(lib, part), "compatdata"), str_int(id))

\* for path in steam_lib_paths: for steamapps_part in ("steamapps",
\* "SteamApps"): the candidate prefix paths, in the order they are tested
PrefixCandidates(id, libs) ==
    [ k \in 1..(2 * Len(libs)) |->
        PathJoin(CompatDataDir(libs[(k + 1) \div 2],
                               IF k % 2 = 1 THEN "steamapps" ELSE "SteamApps",
                               id),
                 "pfx") ]

find_appid_proton_prefix(fs, id, libs) ==
    LET c == PrefixCandidates(id, libs)
        S == { k \in 1..Len(c) : c[k] \in fs }
    IN  IF S = {} THEN None ELSE Some(c[Min(S)])

\* str.lower of the field names of an AppState
lower(key) == IF key = "appID" THEN "appid" ELSE key

\* SteamApp.from_appmanifest for a manifest in directory dir.  A manifest is
\* what reading and parsing it gives: content is "UnicodeDecodeError" (raised
\* by f.read), "SyntaxError" (raised by vdf.loads) or the top-level key of
\* the document ("empty" for none); keys are the field names of that subtree.
\* The result is the exception that propagates ("" for none) and the apps
\* returned (none when the function returns None).
from_appmanifest(fs, dir, manifest, libs) ==
    LET app_state == { lower(k) : k \in manifest.keys } IN
    IF manifest.content \in { "UnicodeDecodeError", "SyntaxError" }
    THEN [ raised |-> "", apps |-> << >> ]
    ELSE IF manifest.content /= "AppState"
    THEN [ raised |-> "", apps |-> << >> ]
    ELSE IF "appid" \notin app_state \/ "name" \notin app_state
            \/ "installdir" \notin app_state
    THEN [ raised |-> "KeyError", apps |-> << >> ]
    ELSE [ raised |-> "",
           apps |-> << SteamApp(manifest.name,
                       PathJoin(PathJoin(dir, "common"), manifest.installdir),
                       find_appid_proton_prefix(fs, manifest.appid, libs),
                       Some(manifest.appid)) >> ]

\* The directory get_steam_apps globs in a library (lines 705-712)
manifest_dir(fs, lib) ==
    IF PathJoin(lib, "steamapps") \in fs THEN Some(PathJoin(lib, "steamapps"))
    ELSE IF PathJoin(lib, "SteamApps") \in fs THEN Some(PathJoin(lib, "SteamApps"))
    ELSE None

RECURSIVE manifest_apps(_, _, _, _)
manifest_apps(fs, dir, manifests, libs) ==
    IF manifests = << >> THEN [ raised |-> "", apps |-> << >> ]
    ELSE LET first == from_appmanifest(fs, dir, Head(manifests), libs) IN
         IF first.raised /= "" THEN first
         ELSE LET rest == manifest_apps(fs, dir, Tail(manifests), libs) IN
              [ raised |-> rest.raised, apps |-> first.apps \o rest.apps ]

\* for path in steam_lib_paths, from library i on; globbed maps a directory
\* to its manifests
RECURSIVE library_apps(_, _, _, _)
library_apps(fs, globbed, libs, i) ==
    IF i > Len(libs) THEN [ raised |-> "", apps |-> << >> ]
    ELSE LET dir == manifest_dir(fs, libs[i])
             first == IF dir = None \/ dir[1] \notin DOMAIN globbed
                      THEN [ raised |-> "", apps |-> << >> ]
                      ELSE manifest_apps(fs, dir[1], globbed[dir[1]], libs)
         IN  IF first.raised /= "" THEN first
             ELSE LET rest == library_apps(fs, globbed, libs, i + 1) IN
                  [ raised |-> rest.raised, apps |-> first.apps \o rest.apps ]

\* get_custom_proton_installations; a file is the directory of the
\* compatibilitytool.vdf and the tool it declares
RECURSIVE custom_proton_apps(_, _)
custom_proton_apps(comp_root, files) ==
    IF files = << >> THEN << >>
    ELSE LET f == Head(files) IN
         (IF f.from_oslist /= "windows" \/ f.to_oslist /= "linux" THEN << >>
          ELSE << SteamApp(f.internal_name,
                           IF f.install_path = "." THEN f.dir
                           ELSE PathJoin(comp_root, f.install_path),
                           None, None) >>)
         \o custom_proton_apps(comp_root, Tail(files))

get_custom_proton_installations(fs, root, files) ==
    LET comp_root == PathJoin(root, "compatibilitytools.d") IN
    IF comp_root \notin fs THEN << >>
    ELSE custom_proton_apps(comp_root, files)

\* x | 0x8000 on 16 bits
SetHighBit(x) == IF x >= 32768 THEN x ELSE x + 32768

\* Mutant: the screenshot id shifted by 16 bits, truncated to 32 bits
get_appid_from_shortcut_short_shift(crc) ==
    << crc[2], 512 >>

\* get_appid_from_shortcut, from the CRC-32 of target + name: the 64-bit
\* screenshot id is four 16-bit limbs, ">> 32" keeps the upper two
get_appid_from_shortcut(crc) ==
    LET result == << SetHighBit(crc[1]), crc[2] >>
        screenshot_id == << result[1], result[2], 512, 0 >>
    IN  << screenshot_id[1], screenshot_id[2] >>

\* "Non-Steam shortcut: "
ShortcutPrefix ==
    << 78, 111, 110, 45, 83, 116, 101, 97, 109, 32,
       115, 104, 111, 114, 116, 99, 117, 116, 58, 32 >>

\* str.strip('"') of the start directory
strip_quotes(startdir) == startdir.path

RECURSIVE shortcut_apps(_, _, _)
shortcut_apps(fs, path, shortcuts) ==
    IF shortcuts = << >> THEN << >>
    ELSE LET shortcut_data == Head(shortcuts)
             id == get_appid_from_shortcut(shortcut_data.crc)
             prefix_path == PathJoin(CompatDataDir(path, "steamapps", id), "pfx")
         IN  (IF prefix_path \notin fs THEN << >>
              ELSE << SteamApp(ShortcutPrefix \o shortcut_data.appname,
                               strip_quotes(shortcut_data.startdir),
                               Some(prefix_path), Some(id)) >>)
             \o shortcut_apps(fs, path, Tail(shortcuts))

\* get_custom_windows_shortcuts; file is None when shortcuts.vdf is missing
get_custom_windows_shortcuts(fs, path, file) ==
    IF file = None THEN << >> ELSE shortcut_apps(fs, path, file[1])

\* The compatdata directories of the model
CompatDataDirs(shortcuts) ==
    { CompatDataDir(steam_lib_paths[i], part, id) :
        i \in 1..Len(steam_lib_paths), part \in { "steamapps", "SteamApps" },
        id \in AppIds \cup { get_appid_from_shortcut(sc.crc) : sc \in shortcuts } }

\* os.path.join(prefix_path, "..", "pfx.lock") as the filesystem resolves it
lock_path(prefix_path, dirs) ==
    LET c == CHOOSE d \in dirs : PathJoin(d, "pfx") = prefix_path
    IN  PathJoin(c, "pfx.lock")

\* Mutant: a prefix directory counts without its pfx.lock
prefix_path_exists_without_lock(app, fs, dirs) ==
    /\ app.prefix_path /= None
    /\ app.prefix_path[1] \in fs

\* SteamApp.prefix_path_exists
prefix_path_exists(app, fs, dirs) ==
    /\ app.prefix_path /= None
    /\ app.prefix_path[1] \in fs
    /\ lock_path(app.prefix_path[1], dirs) \in fs

\* SteamApp.is_proton
is_proton(app, fs) == PathJoin(app.install_path, "proton") \in fs

\* [app for app in steam_apps if app.prefix_path_exists or app.is_proton]
RECURSIVE launched_or_proton(_, _, _)
launched_or_proton(apps, fs, dirs) ==
    IF apps = << >> THEN << >>
    ELSE (IF prefix_path_exists(Head(apps), fs, dirs) \/ is_proton(Head(apps), fs)
          THEN << Head(apps) >> ELSE << >>)
         \o launched_or_proton(Tail(apps), fs, dirs)

\* Insertion before the first element that does not sort before app
RECURSIVE insert_by_name(_, _)
insert_by_name(app, sorted) ==
    IF sorted = << >> THEN << app >>
    ELSE IF StrLess(Head(sorted).name, app.name)
    THEN << Head(sorted) >> \o insert_by_name(app, Tail(sorted))
    ELSE << app >> \o sorted

\* steam_apps.sort(key=lambda app: app.name): a stable sort
RECURSIVE sort_by_name(_)
sort_by_name(apps) ==
    IF apps = << >> THEN << >>
    ELSE insert_by_name(Head(apps), sort_by_name(Tail(apps)))

\* The shortcuts of every file the model reads
RECURSIVE SeqRange(_)
SeqRange(q) == IF q = << >> THEN {} ELSE { Head(q) } \cup SeqRange(Tail(q))

\* get_steam_apps(steam_root, steam_path, steam_lib_paths)
GetSteamApps(globbed, tools, shortcuts) ==
    /\ apps_pc = "call"
    /\ appmanifests' = Some(globbed)
    /\ LET found == library_apps(apps_fs, globbed, steam_lib_paths, 1)
           all == found.apps
                  \o get_custom_proton_installations(apps_fs, steam_root, tools)
                  \o get_custom_windows_shortcuts(apps_fs, steam_path, shortcuts)
           dirs == CompatDataDirs(IF shortcuts = None THEN {}
                                  ELSE SeqRange(shortcuts[1]))
       IN  IF found.raised /= ""
           THEN \* the exception leaves the loop over the libraries
                /\ apps_pc' = "raised"
                /\ scanned' = found.apps
                /\ inventory' = << >>
                /\ comptool_files' = None
                /\ shortcuts_vdf' = None
           ELSE /\ apps_pc' = "returned"
                /\ scanned' = all
                /\ inventory' = sort_by_name(launched_or_proton(all, apps_fs, dirs))
                /\ comptool_files' = Some(tools)
                /\ shortcuts_vdf' = Some(shortcuts)
    /\ UNCHANGED apps_fs
    /\ UNCHANGED << resolverVars, libVars, pathVars, toolVars >>

(* Inputs of get_steam_apps *)

MaxShortcuts == 1

\* "A", "B" and "a": in code point order "A" < "B" < "a"
Name_A == << 65 >>
Name_B == << 66 >>
Name_a == << 97 >>

\* 0x12345678, the CRC-32 taken for the shortcuts of the model
ShortcutCrc == << 4660, 22136 >>

\* Directories that always exist
AppsBaseDirs ==
    { PathJoin(steam_lib_paths[1], "steamapps"),
      PathJoin(steam_lib_paths[2], "SteamApps"),
      PathJoin(steam_root, "compatibilitytools.d") }

ToolDir == PathJoin(PathJoin(steam_root, "compatibilitytools.d"), "GE")

\* Prefix directories and pfx.lock files of app 1 (in the first library), of
\* app 2 (in the second) and of the shortcut, and two "proton" files
AppsOptionalPaths ==
    LET c1 == CompatDataDir(steam_lib_paths[1], "steamapps", int(1))
        c2 == CompatDataDir(steam_lib_paths[2], "SteamApps", int(2))
        cs == CompatDataDir(steam_path, "steamapps",
                            get_appid_from_shortcut(ShortcutCrc))
    IN  { PathJoin(c, f) : c \in { c1, c2, cs }, f \in { "pfx", "pfx.lock" } }
        \cup { PathJoin(PathJoin(PathJoin(PathJoin(steam_lib_paths[1],
                   "steamapps"), "common"), "d1"), "proton"),
               PathJoin(ToolDir, "proton") }

\* The fields from_appmanifest reads
ManifestKeys == { "appid", "name", "installdir" }

\* Per library directory, no manifest, the manifest of its app, or a file
\* that is not a text document
GlobResults ==
    LET d1 == PathJoin(steam_lib_paths[1], "steamapps")
        d2 == PathJoin(steam_lib_paths[2], "SteamApps")
        M(id, dir) == { << >> } \cup
            { << [ content |-> "AppState", keys |-> ManifestKeys, appid |-> id,
                   name |-> n, installdir |-> dir ] >> :
                n \in { Name_A, Name_B, Name_a } }
            \cup { << [ content |-> "SyntaxError", keys |-> {}, appid |-> id,
                        name |-> EmptyStr, installdir |-> "" ] >> }
    IN  { (d1 :> m1) @@ (d2 :> m2) : m1 \in M(int(1), "d1"), m2 \in M(int(2), "d2") }

ToolFileLists ==
    { << >> } \cup
    { << [ dir |-> ToolDir, internal_name |-> t[1], install_path |-> ".",
           from_oslist |-> "windows", to_oslist |-> t[2] ] >> :
        t \in { << Name_a, "linux" >>, << Name_B, "linux" >>,
                << Name_a, "windows" >> } }

ShortcutFiles ==
    { None } \cup
    { Some(q) : q \in SeqsUpTo(
        { [ appname |-> Name_A, crc |-> ShortcutCrc,
            startdir |-> [ quoted |-> TRUE, path |-> "/games/a" ] ] },
        MaxShortcuts) }

InitSteamApps ==
    /\ ResolverIdle
    /\ ToolsIdle
    /\ lib_fs = {}
    /\ folders_vdf = None
    /\ lib_pc = "idle"
    /\ lib_paths = << >>
    /\ lib_raised = ""
    /\ STEAM_DIR = None
    /\ home_fs = {}
    /\ path_pc = "idle"
    /\ found_path = None
    /\ found_root = None
    /\ probed = << >>
    /\ apps_fs \in { AppsBaseDirs \cup S : S \in SUBSET AppsOptionalPaths }
    /\ appmanifests = None
    /\ comptool_files = None
    /\ shortcuts_vdf = None
    /\ apps_pc = "call"
    /\ scanned = << >>
    /\ inventory = << >>

NextSteamApps ==
    /\ apps_pc = "call"
    /\ \E globbed \in GlobResults, tools \in ToolFileLists,
          shortcuts \in ShortcutFiles :
           GetSteamApps(globbed, tools, shortcuts)

SpecSteamApps == InitSteamApps /\ [][NextSteamApps]_vars

(* Properties of get_steam_apps *)

\* prefix_path set, the prefix directory existing and the pfx.lock beside it
C10_HasUsablePrefix(app) ==
    /\ app.prefix_path /= None
    /\ app.prefix_path[1] \in apps_fs
    /\ \E lib \in { "/steam", "/mnt/a" }, part \in { "steamapps", "SteamApps" },
          id \in { "1", "2", "2452903544" } :
          LET dir == lib \o "/" \o part \o "/compatdata/" \o id IN
          /\ app.prefix_path[1] = dir \o "/pfx"
          /\ (dir \o "/pfx.lock") \in apps_fs

C10_IsRuntime(app) == (app.install_path \o "/proton") \in apps_fs

C10_Count(q, x) == Cardinality({ i \in 1..Len(q) : q[i] = x })

\* a <= b in code point order: equal, a proper prefix, or smaller at the
\* first position where they differ
C10_OrdinalLeq(a, b) ==
    \/ a = b
    \/ \E k \in 1..Len(b) :
          /\ \A i \in 1..(k - 1) : i <= Len(a) /\ a[i] = b[i]
          /\ Len(a) < k \/ (Len(a) >= k /\ a[k] < b[k])

\* C10: every record returned by get_steam_apps has a usable prefix or is
\* a Proton installation; every scanned record (from manifests, custom
\* tools and shortcuts) that satisfies this is returned, as often as it
\* was scanned; and the list is in ascending code point order of the names.
C10_FilteredAndSorted ==
    apps_pc = "returned" =>
        /\ \A i \in 1..Len(inventory) :
              C10_HasUsablePrefix(inventory[i]) \/ C10_IsRuntime(inventory[i])
        /\ \A i \in 1..Len(scanned) :
              (C10_HasUsablePrefix(scanned[i]) \/ C10_IsRuntime(scanned[i]))
                  => C10_Count(inventory, scanned[i]) = C10_Count(scanned, scanned[i])
        /\ \A i \in 1..Len(inventory) : C10_Count(scanned, inventory[i]) > 0
        /\ \A i \in 1..(Len(inventory) - 1) :
              C10_OrdinalLeq(inventory[i].name, inventory[i + 1].name)

\* A manifest app "a" with a launched prefix, the
\* custom tool "B" and a launched shortcut are kept, in the order "B",
\* "Non-Steam shortcut: A", "a"; a manifest app whose prefix has no
\* pfx.lock is dropped.
C10_Witness ==
    /\ apps_pc = "returned"
    /\ Len(scanned) = 4
    /\ Len(inventory) = 3
    /\ inventory[1].name = Name_B
    /\ inventory[1].appid = None
    /\ inventory[2].appid = Some(<< 37428, 22136 >>)
    /\ inventory[3].name = Name_a
    /\ inventory[3].appid = Some(int(2))
    /\ scanned[1].prefix_path /= None
    /\ C10_Count(inventory, scanned[1]) = 0

----------------------------------------------------------------------------
(* get_steam_apps over manifests of every kind *)

MaxManifests == 2

\* The manifest of app id in a directory: well formed (with "appid" or
\* "appID"), unreadable, unparsable, without an "AppState" key, or with an
\* AppState that lacks a field
ManifestsOf(id, dir) ==
    { [ content |-> c, keys |-> k, appid |-> id, name |-> Name_A,
        installdir |-> dir ] :
        c \in { "AppState" },
        k \in { ManifestKeys, { "appID", "name", "installdir" },
                ManifestKeys \ { "appid" }, ManifestKeys \ { "name" },
                ManifestKeys \ { "installdir" } } }
    \cup
    { [ content |-> c, keys |-> IF c = "appstate" THEN ManifestKeys ELSE {},
        appid |-> id, name |-> Name_A, installdir |-> dir ] :
        c \in { "UnicodeDecodeError", "SyntaxError", "appstate", "empty" } }

\* Up to MaxManifests manifests in the first library and up to one in the
\* second
ManifestScans ==
    LET d1 == PathJoin(steam_lib_paths[1], "steamapps")
        d2 == PathJoin(steam_lib_paths[2], "SteamApps")
    IN  { (d1 :> m1) @@ (d2 :> m2) :
            m1 \in SeqsUpTo(ManifestsOf(int(1), "d1"), MaxManifests),
            m2 \in SeqsUpTo(ManifestsOf(int(2), "d2"), 1) }

\* The two libraries, with or without the launched prefix of app 1
InitManifests ==
    /\ ResolverIdle
    /\ ToolsIdle
    /\ lib_fs = {}
    /\ folders_vdf = None
    /\ lib_pc = "idle"
    /\ lib_paths = << >>
    /\ lib_raised = ""
    /\ STEAM_DIR = None
    /\ home_fs = {}
    /\ path_pc = "idle"
    /\ found_path = None
    /\ found_root = None
    /\ probed = << >>
    /\ apps_fs \in
         { AppsBaseDirs \cup S :
             S \in SUBSET { PathJoin(CompatDataDir(steam_path, "steamapps", int(1)), f) :
                              f \in { "pfx", "pfx.lock" } } }
    /\ appmanifests = None
    /\ comptool_files = None
    /\ shortcuts_vdf = None
    /\ apps_pc = "call"
    /\ scanned = << >>
    /\ inventory = << >>

NextManifests ==
    /\ apps_pc = "call"
    /\ \E globbed \in ManifestScans : GetSteamApps(globbed, << >>, None)

SpecManifests == InitManifests /\ [][NextManifests]_vars

(* Properties of the manifest scan *)

\* A manifest that reads, parses and has an AppState with the three fields
C11_IsValid(manifest) ==
    /\ manifest.content = "AppState"
    /\ \E k \in { "appid", "appID" } : k \in manifest.keys
    /\ "name" \in manifest.keys
    /\ "installdir" \in manifest.keys

C11_AllManifests ==
    { m \in ManifestsOf(int(1), "d1") \cup ManifestsOf(int(2), "d2") :
        \E d \in DOMAIN appmanifests[1] :
            \E k \in 1..Len(appmanifests[1][d]) : appmanifests[1][d][k] = m }

C11_Scanned(manifest) ==
    \E k \in 1..Len(scanned) :
        /\ scanned[k].appid = Some(manifest.appid)
        /\ scanned[k].name = manifest.name

\* C11: whatever manifests the libraries hold, get_steam_apps completes and
\* the records of every valid manifest of every library have been scanned.
C11_NoManifestAbortsScan ==
    apps_pc \in { "returned", "raised" } =>
        /\ apps_pc = "returned"
        /\ \A m \in C11_AllManifests : C11_IsValid(m) => C11_Scanned(m)

\* What holds: manifests that cannot be read or parsed, or that have no
\* "AppState" key, are skipped without ending the scan
C11_UnreadableManifestsSkipped ==
    (/\ apps_pc \in { "returned", "raised" }
     /\ \A m \in C11_AllManifests : m.content = "AppState" => C11_IsValid(m))
        => /\ apps_pc = "returned"
           /\ \A m \in C11_AllManifests : C11_IsValid(m) => C11_Scanned(m)

----------------------------------------------------------------------------
(* get_appid_from_shortcut on its own *)

\* The resolver, get_steam_lib_paths, find_steam_path and get_steam_apps
\* are not running
CoreIdle ==
    /\ ResolverIdle
    /\ lib_fs = {}
    /\ folders_vdf = None
    /\ lib_pc = "idle"
    /\ lib_paths = << >>
    /\ lib_raised = ""
    /\ STEAM_DIR = None
    /\ home_fs = {}
    /\ path_pc = "idle"
    /\ found_path = None
    /\ found_root = None
    /\ probed = << >>
    /\ apps_fs = {}
    /\ appmanifests = None
    /\ comptool_files = None
    /\ shortcuts_vdf = None
    /\ apps_pc = "idle"
    /\ scanned = << >>
    /\ inventory = << >>

coreVars == << resolverVars, libVars, pathVars, appsVars >>

MaxCalls == 2

\* One call, on the checksum of the same target and name
GetAppidFromShortcut ==
    /\ Len(shortcut_ids) < MaxCalls
    /\ shortcut_ids' = Append(shortcut_ids, get_appid_from_shortcut(crc32))
    /\ UNCHANGED crc32
    /\ UNCHANGED << coreVars, runVars, appinfoVars, loginVars >>

\* 16-bit limbs at the ends of the range, around bit 15 and equal to the
\* limbs of 0x02000000
CrcLimbs == { 0, 1, 512, 4660, 32767, 32768, 43981, 65535 }

InitShortcutId ==
    /\ CoreIdle
    /\ RunIdle
    /\ AppinfoIdle
    /\ LoginIdle
    /\ crc32 \in CrcLimbs \X CrcLimbs
    /\ shortcut_ids = << >>

NextShortcutId == GetAppidFromShortcut

SpecShortcutId == InitShortcutId /\ [][NextShortcutId]_vars

(* Properties of get_appid_from_shortcut *)

\* Bit b of a 16-bit limb
C12_Bit(x, b) == (x \div (2 ^ b)) % 2

\* r = c OR 0x80000000, bit by bit: bit 15 of the upper limb is set and
\* every other bit is the bit of c
C12_IsOrWithHighBit(r, c) ==
    /\ r[1] \in 0..65535
    /\ r[2] \in 0..65535
    /\ C12_Bit(r[1], 15) = 1
    /\ \A b \in 0..14 : C12_Bit(r[1], b) = C12_Bit(c[1], b)
    /\ \A b \in 0..15 : C12_Bit(r[2], b) = C12_Bit(c[2], b)

\* C12: every value get_appid_from_shortcut returns is the checksum with
\* bit 31 set: it lies in [2^31, 2^32) (upper limb at least 0x8000), its low
\* 31 bits are those of the checksum, no bit of 0x02000000 shows in it, and
\* two calls on the same input return the same value.
C12_IdIsChecksumWithHighBit ==
    /\ \A k \in 1..Len(shortcut_ids) :
          /\ C12_IsOrWithHighBit(shortcut_ids[k], crc32)
          /\ shortcut_ids[k][1] >= 32768
          /\ shortcut_ids[k][1] % 32768 = crc32[1] % 32768
          /\ shortcut_ids[k][2] = crc32[2]
    /\ \A k, l \in 1..Len(shortcut_ids) : shortcut_ids[k] = shortcut_ids[l]

\* Two calls on a checksum below 2^31 whose low half is not that of
\* 0x02000000
C12_Witness ==
    /\ crc32 = << 4660, 43981 >>
    /\ shortcut_ids = << << 37428, 43981 >>, << 37428, 43981 >> >>

----------------------------------------------------------------------------
(* run_command *)

EnvNames ==
    { "WINE", "WINESERVER", "WINETRICKS", "WINEPREFIX", "WINELOADER",
      "WINEDLLPATH", "PATH", "WINEARCH" }

pathsep == ":"

\* proton_app.install_path and winetricks_path
proton_install_path == "/proton"
winetricks_path == "/usr/bin/winetricks"

\* The directory tempfile.mkdtemp creates
bin_path == "/tmp/protontricks_wine_0"

\* os.environ after lines 87-102: WINE and WINESERVER default to the
\* bundled binaries when unset or empty
with_wine_defaults(env) ==
    [ env EXCEPT
        !["WINE"] = IF Truthy(env["WINE"]) THEN env["WINE"]
                    ELSE Some(PathJoin(PathJoin(PathJoin(proton_install_path,
                                  "dist"), "bin"), "wine")),
        !["WINESERVER"] = IF Truthy(env["WINESERVER"]) THEN env["WINESERVER"]
                          ELSE Some(PathJoin(PathJoin(PathJoin(
                                  proton_install_path, "dist"), "bin"),
                                  "wineserver")) ]

\* os.environ after lines 104-111, for a prefix path that is a str
with_wine_settings(env, prefix_path) ==
    [ env EXCEPT
        !["WINETRICKS"] = Some(winetricks_path),
        !["WINEPREFIX"] = Some(prefix_path),
        !["WINELOADER"] = env["WINE"],
        !["WINEDLLPATH"] = Some(
            PathJoin(PathJoin(PathJoin(proton_install_path, "dist"), "lib64"),
                     "wine")
            \o pathsep \o
            PathJoin(PathJoin(PathJoin(proton_install_path, "dist"), "lib"),
                     "wine")) ]

\* os.environ after lines 113-118, for a PATH that is set
with_proton_path(env) ==
    [ env EXCEPT
        !["PATH"] = Some(PathJoin(PathJoin(proton_install_path, "dist"), "bin")
                         \o pathsep \o env["PATH"][1]),
        !["WINEARCH"] = None ]

\* Lines 85-131: everything before the try statement.  prefix_path is
\* steam_app.prefix_path; helper is how create_wine_bin_dir ends: "created",
\* "CalledProcessError" (run.sh fails, before mkdtemp) or "OSError" (a
\* helper script cannot be written, after mkdtemp).
RunCommandSetup(prefix_path, helper) ==
    /\ run_pc = "call"
    /\ environ_copy' = environ
    /\ LET env1 == with_wine_defaults(environ) IN
       IF prefix_path = None
       THEN \* os.environ["WINEPREFIX"] = None
            /\ environ' = [ env1 EXCEPT !["WINETRICKS"] = Some(winetricks_path) ]
            /\ run_pc' = "raised"
            /\ run_raised' = "TypeError"
            /\ UNCHANGED << tmp_dirs, wine_bin_dir >>
       ELSE LET env2 == with_wine_settings(env1, prefix_path[1]) IN
            IF env2["PATH"] = None
            THEN \* os.environ["PATH"]
                 /\ environ' = env2
                 /\ run_pc' = "raised"
                 /\ run_raised' = "KeyError"
                 /\ UNCHANGED << tmp_dirs, wine_bin_dir >>
            ELSE LET env3 == with_proton_path(env2) IN
                 IF ~Truthy(steam_runtime_path)
                 THEN /\ environ' = env3
                      /\ run_pc' = "run"
                      /\ UNCHANGED << tmp_dirs, wine_bin_dir, run_raised >>
                 ELSE IF helper = "created"
                 THEN /\ environ' = [ env3 EXCEPT !["PATH"] =
                              Some(bin_path \o pathsep \o env3["PATH"][1]) ]
                      /\ tmp_dirs' = tmp_dirs \cup { bin_path }
                      /\ wine_bin_dir' = Some(bin_path)
                      /\ run_pc' = "run"
                      /\ UNCHANGED run_raised
                 ELSE /\ environ' = env3
                      /\ tmp_dirs' = IF helper = "OSError"
                                     THEN tmp_dirs \cup { bin_path }
                                     ELSE tmp_dirs
                      /\ run_pc' = "raised"
                      /\ run_raised' = helper
                      /\ UNCHANGED wine_bin_dir
    /\ UNCHANGED << environ_at_call, steam_runtime_path >>
    /\ UNCHANGED << coreVars, shortcutVars, appinfoVars, loginVars >>

\* Lines 133-141: the command ends (it returns, or run raises) and the
\* finally block runs
RunCommandFinally(command) ==
    /\ run_pc = "run"
    /\ environ' = environ_copy
    /\ tmp_dirs' = IF Truthy(wine_bin_dir) THEN tmp_dirs \ { wine_bin_dir[1] }
                   ELSE tmp_dirs
    /\ run_pc' = IF command = "returns" THEN "returned" ELSE "raised"
    /\ run_raised' = IF command = "returns" THEN "" ELSE command
    /\ UNCHANGED << environ_at_call, environ_copy, steam_runtime_path,
                    wine_bin_dir >>
    /\ UNCHANGED << coreVars, shortcutVars, appinfoVars, loginVars >>

(* Inputs of run_command *)

Environments ==
    { [ n \in EnvNames |->
          CASE n = "WINE" -> e[1]
            [] n = "WINESERVER" -> e[2]
            [] n = "WINEARCH" -> e[3]
            [] n = "PATH" -> e[4]
            [] n = "WINEPREFIX" -> e[5]
            [] OTHER -> None ] :
        e \in { None, Some(""), Some("/usr/bin/wine") }
              \X { None, Some("/usr/bin/wineserver") }
              \X { None, Some("win32") }
              \X { None, Some("/usr/bin") }
              \X { None, Some("/old/pfx") } }

InitRunCommand ==
    /\ CoreIdle
    /\ ShortcutIdle
    /\ AppinfoIdle
    /\ LoginIdle
    /\ environ \in Environments
    /\ environ_at_call = environ
    /\ environ_copy = << >>
    /\ steam_runtime_path \in { None, Some("/steam/ubuntu12_32/steam-runtime") }
    /\ tmp_dirs = {}
    /\ wine_bin_dir = None
    /\ run_pc = "call"
    /\ run_raised = ""

NextRunCommand ==
    \/ \E prefix_path \in { None, Some("/steam/steamapps/compatdata/1/pfx") },
          helper \in { "created", "CalledProcessError", "OSError" } :
          RunCommandSetup(prefix_path, helper)
    \/ \E command \in { "returns", "FileNotFoundError" } :
          RunCommandFinally(command)

SpecRunCommand == InitRunCommand /\ [][NextRunCommand]_vars

(* Properties of run_command *)

C13_Finished == run_pc \in { "returned", "raised" }

\* C13: however run_command ends, every environment variable has the value
\* (or the absence) it had at the call and no helper-script directory is
\* left behind.
C13_EnvironmentRestored ==
    C13_Finished =>
        /\ \A n \in EnvNames : environ[n] = environ_at_call[n]
        /\ tmp_dirs = {}

\* What holds: the same, once the command itself has been started
C13_RestoredAfterCommand ==
    (C13_Finished /\ run_raised \in { "", "FileNotFoundError" }) =>
        /\ \A n \in EnvNames : environ[n] = environ_at_call[n]
        /\ tmp_dirs = {}

----------------------------------------------------------------------------
(* get_appinfo_sections: the loop over the byte cursor *)

\* struct.calcsize of "<4sL" and of "<LLLLQ20sL"
header_size == 8
section_size == 48

\* len(data): the header, each record's header and blob, the 4-byte trailer
RECURSIVE RecordBytes(_)
RecordBytes(records) ==
    IF records = << >> THEN 0
    ELSE section_size + Head(records).blob_len + RecordBytes(Tail(records))

DataLen(file) == header_size + RecordBytes(file.records) + 4

\* The record whose header starts at byte c, if there is one
RecordAt(file, c) ==
    LET S == { k \in 1..Len(file.records) :
                 c = header_size + RecordBytes(SubSeq(file.records, 1, k - 1)) }
    IN  IF S = {} THEN None ELSE Some(Min(S))

\* Mutant: the cursor advanced by the blob only
next_cursor_blob_only(c, entry_size) ==
    c + (entry_size - 40)

\* i += section_size; ...; i += vdf_section_size
next_cursor(c, entry_size) ==
    c + section_size + (entry_size - 40)

\* Lines 255-268: read the file, unpack the header, check the magic
ParseHeader ==
    /\ appinfo_pc = "open"
    /\ IF appinfo_data.magic_ok
       THEN /\ cursor' = header_size
            /\ appinfo_pc' = "loop"
            /\ UNCHANGED appinfo_raised
       ELSE /\ cursor' = header_size
            /\ appinfo_pc' = "raised"
            /\ appinfo_raised' = "SyntaxError"
    /\ UNCHANGED << appinfo_data, appinfo_sections, section_log >>
    /\ UNCHANGED << coreVars, shortcutVars, runVars, loginVars >>

\* Lines 273-301: one iteration.  At the start of a record the bytes
\* unpacked are its header; anywhere else they are whatever lies there, and
\* so is what vdf.binary_loads makes of a slice that is not a whole blob:
\* read_size and read_outcome stand for those.
ParseSection(read_size, read_outcome) ==
    /\ appinfo_pc = "loop"
    /\ IF cursor + section_size > DataLen(appinfo_data)
       THEN \* struct.unpack on fewer than section_size bytes
            /\ section_log' = Append(section_log,
                   [ cursor |-> cursor, entry_size |-> 0,
                     outcome |-> "struct.error", doc |-> 0 ])
            /\ appinfo_pc' = "raised"
            /\ appinfo_raised' = "struct.error"
            /\ UNCHANGED << cursor, appinfo_sections >>
       ELSE LET at == RecordAt(appinfo_data, cursor)
                entry_size == IF at = None THEN read_size
                              ELSE appinfo_data.records[at[1]].entry_size
                whole == /\ at /= None
                         /\ entry_size - 40 = appinfo_data.records[at[1]].blob_len
                outcome == IF whole THEN appinfo_data.records[at[1]].blob
                           ELSE read_outcome
                doc == IF whole THEN at[1] ELSE 0
            IN  /\ section_log' = Append(section_log,
                       [ cursor |-> cursor, entry_size |-> entry_size,
                         outcome |-> outcome, doc |-> doc ])
                /\ IF outcome = "SyntaxError"
                   THEN \* not caught by "except UnicodeDecodeError"
                        /\ appinfo_pc' = "raised"
                        /\ appinfo_raised' = "SyntaxError"
                        /\ cursor' = cursor + section_size
                        /\ UNCHANGED appinfo_sections
                   ELSE /\ appinfo_sections' =
                              IF outcome = "ok"
                              THEN Append(appinfo_sections, doc)
                              ELSE appinfo_sections
                        /\ cursor' = next_cursor(cursor, entry_size)
                        /\ appinfo_pc' =
                              IF cursor' = DataLen(appinfo_data) - 4
                              THEN "returned" ELSE "loop"
                        /\ UNCHANGED appinfo_raised
    /\ UNCHANGED appinfo_data
    /\ UNCHANGED << coreVars, shortcutVars, runVars, loginVars >>

(* Inputs of get_appinfo_sections *)

MaxRecords == 2

\* A record: the entry_size it declares, the length of its blob and what
\* vdf.binary_loads does with the blob
AppinfoRecords ==
    { [ entry_size |-> 40 + r[1] + r[2], blob_len |-> r[1], blob |-> r[3] ] :
        r \in { 8, 16 } \X { -8, 0, 8 } \X { "ok", "UnicodeDecodeError" } }

AppinfoFiles ==
    { [ magic_ok |-> FALSE, records |-> << >> ] } \cup
    { [ magic_ok |-> TRUE, records |-> q ] :
        q \in SeqsUpTo(AppinfoRecords, MaxRecords) }

\* What a misplaced read can give
ReadSizes == { 40, 56 }
ReadOutcomes == { "ok", "UnicodeDecodeError", "SyntaxError" }

InitAppinfo ==
    /\ CoreIdle
    /\ ShortcutIdle
    /\ RunIdle
    /\ LoginIdle
    /\ appinfo_data \in AppinfoFiles
    /\ cursor = 0
    /\ appinfo_sections = << >>
    /\ section_log = << >>
    /\ appinfo_pc = "open"
    /\ appinfo_raised = ""

NextAppinfo ==
    \/ ParseHeader
    \/ \E read_size \in ReadSizes, read_outcome \in ReadOutcomes :
          ParseSection(read_size, read_outcome)

SpecAppinfo == InitAppinfo /\ [][NextAppinfo]_vars

(* Properties of get_appinfo_sections *)

\* 8 plus, for each of the first n sections read, the record header size
\* and the declared entry_size less 40
RECURSIVE C14_Offset(_)
C14_Offset(n) ==
    IF n = 0 THEN 8
    ELSE C14_Offset(n - 1) + 48 + section_log[n].entry_size - 40

\* The documents of the sections that decoded, in the order read
RECURSIVE C14_Decoded(_)
C14_Decoded(n) ==
    IF n = 0 THEN << >>
    ELSE IF section_log[n].outcome = "ok"
    THEN Append(C14_Decoded(n - 1), section_log[n].doc)
    ELSE C14_Decoded(n - 1)

\* C14: every section is read at 8 plus the sum over the sections read
\* before it of (48 + declared entry_size - 40), whether those decoded or
\* were skipped and whatever the length of their blobs (the size used at
\* the start of a record is the one the record declares); the cursor after
\* the last section follows the same rule; and the list holds exactly the
\* documents that decoded, in file order.
C14_CursorFollowsDeclaredSizes ==
    /\ \A k \in 1..Len(section_log) :
          /\ section_log[k].cursor = C14_Offset(k - 1)
          /\ LET at == RecordAt(appinfo_data, section_log[k].cursor) IN
             (at /= None /\ section_log[k].outcome /= "struct.error")
                 => section_log[k].entry_size
                        = appinfo_data.records[at[1]].entry_size
    /\ appinfo_pc \in { "loop", "returned" } =>
          /\ cursor = C14_Offset(Len(section_log))
          /\ appinfo_sections = C14_Decoded(Len(section_log))

\* Two records that declare the length of their blobs: the blob of the
\* first does not decode, the second is read at its start and the list
\* returned holds the second document only
C14_Witness ==
    /\ appinfo_pc = "returned"
    /\ Len(section_log) = 2
    /\ section_log[1].outcome = "UnicodeDecodeError"
    /\ section_log[2].outcome = "ok"
    /\ Len(appinfo_data.records) = 2
    /\ appinfo_data.records[1].entry_size = 40 + appinfo_data.records[1].blob_len
    /\ appinfo_data.records[2].entry_size = 40 + appinfo_data.records[2].blob_len
    /\ appinfo_sections = << 2 >>

\* Every record declares the length of its blob
C15_WellFormed ==
    /\ appinfo_data.magic_ok
    /\ \A k \in 1..Len(appinfo_data.records) :
          appinfo_data.records[k].entry_size
              = 40 + appinfo_data.records[k].blob_len

\* C15: on a well-formed container with any number of records the call
\* ends by returning with the cursor at len(data) - 4, and no record
\* header is read at or past that offset.
C15_WellFormedReturnsAtTrailer ==
    C15_WellFormed =>
        /\ appinfo_pc \in { "returned", "raised" } =>
              /\ appinfo_pc = "returned"
              /\ cursor = DataLen(appinfo_data) - 4
        /\ \A k \in 1..Len(section_log) :
              section_log[k].cursor < DataLen(appinfo_data) - 4

\* What holds: the same for a well-formed container with at least one record
C15_NonEmptyReturnsAtTrailer ==
    (C15_WellFormed /\ appinfo_data.records /= << >>) =>
        /\ appinfo_pc \in { "returned", "raised" } =>
              /\ appinfo_pc = "returned"
              /\ cursor = DataLen(appinfo_data) - 4
        /\ \A k \in 1..Len(section_log) :
              section_log[k].cursor < DataLen(appinfo_data) - 4

\* What holds: the cursor grows with every section read and a header is
\* unpacked only where section_size bytes remain, so the loop ends; once
\* the cursor is past len(data) - 4 the next read raises
C15_LoopEnds ==
    /\ \A k \in 1..(Len(section_log) - 1) :
          section_log[k].cursor < section_log[k + 1].cursor
    /\ \A k \in 1..Len(section_log) :
          section_log[k].outcome /= "struct.error"
              => section_log[k].cursor + 48 <= DataLen(appinfo_data)
    /\ (appinfo_pc = "loop" /\ section_log /= << >>)
          => cursor > section_log[Len(section_log)].cursor

----------------------------------------------------------------------------
(* find_current_steamid3 *)

\* int(steamid64) & 0xffffffff, on four 16-bit limbs
to_steamid3(steamid64) == << steamid64[3], steamid64[4] >>

\* user_data.get("Timestamp", 0): the int 0 when absent (None here), the
\* str read from the file otherwise.  "a > b" as max evaluates it: between
\* two str by code points, between two int by value, TypeError between a
\* str and an int.
timestamp_greater(a, b) ==
    IF a = None /\ b = None THEN [ raised |-> "", value |-> FALSE ]
    ELSE IF a = None \/ b = None THEN [ raised |-> "TypeError", value |-> FALSE ]
    ELSE [ raised |-> "", value |-> StrLess(b[1], a[1]) ]

\* max(users, key=lambda u: u["timestamp"]) from position k on, best being
\* the position of the largest so far: the first of the largest is kept
RECURSIVE max_by_timestamp(_, _, _)
max_by_timestamp(users, best, k) ==
    IF k > Len(users) THEN [ raised |-> "", value |-> best ]
    ELSE LET greater == timestamp_greater(users[k].timestamp,
                                          users[best].timestamp) IN
         IF greater.raised /= "" THEN [ raised |-> greater.raised, value |-> best ]
         ELSE max_by_timestamp(users, IF greater.value THEN k ELSE best, k + 1)

\* find_current_steamid3(steam_path); file is None when loginusers.vdf
\* cannot be opened, else the users in the order the mapping iterates
FindCurrentSteamid3(file) ==
    /\ login_pc = "call"
    /\ loginusers' = Some(file)
    /\ IF file = None \/ file[1] = << >>
       THEN /\ steamid3' = None
            /\ login_pc' = "returned"
            /\ UNCHANGED login_raised
       ELSE LET users == file[1]
                user == max_by_timestamp(users, 1, 2)
            IN  IF user.raised /= ""
                THEN /\ steamid3' = None
                     /\ login_pc' = "raised"
                     /\ login_raised' = user.raised
                ELSE /\ steamid3' = Some(to_steamid3(users[user.value].user_id))
                     /\ login_pc' = "returned"
                     /\ UNCHANGED login_raised
    /\ UNCHANGED << coreVars, shortcutVars, runVars, appinfoVars >>

(* Inputs of find_current_steamid3 *)

MaxUsers == 2

\* 0x0110000100000000 + account id, for three accounts
SteamId64s == { << 272, 1, 0, 7 >>, << 272, 1, 1, 7 >>, << 272, 1, 65535, 65535 >> }

\* Absent, "2", "9" and "10"
Timestamps == { None, Some(<< 50 >>), Some(<< 57 >>), Some(<< 49, 48 >>) }

LoginUsers == [ user_id : SteamId64s, timestamp : Timestamps ]

LoginFiles ==
    { None } \cup
    { Some(q) : q \in { u \in SeqsUpTo(LoginUsers, MaxUsers) :
                          \A k, l \in 1..Len(u) :
                              u[k].user_id = u[l].user_id => k = l } }

InitLogin ==
    /\ CoreIdle
    /\ ShortcutIdle
    /\ RunIdle
    /\ AppinfoIdle
    /\ loginusers = None
    /\ steamid3 = None
    /\ login_pc = "call"
    /\ login_raised = ""

NextLogin == \E file \in LoginFiles : FindCurrentSteamid3(file)

SpecLogin == InitLogin /\ [][NextLogin]_vars

(* Properties of find_current_steamid3 *)

\* The number a timestamp denotes; 0 when there is none
RECURSIVE C16_Decimal(_)
C16_Decimal(digits) ==
    IF digits = << >> THEN 0
    ELSE 10 * C16_Decimal(SubSeq(digits, 1, Len(digits) - 1))
         + (digits[Len(digits)] - 48)

C16_Value(timestamp) ==
    IF timestamp = None THEN 0 ELSE C16_Decimal(timestamp[1])

C16_Users == IF loginusers[1] = None THEN << >> ELSE loginusers[1][1]

\* C16: the call returns; for a missing manifest or one without users it
\* returns none, otherwise the low 32 bits of the id of a user whose
\* timestamp, read as a number (0 when absent), is the highest.
C16_LatestLoginByValue ==
    login_pc \in { "returned", "raised" } =>
        /\ login_pc = "returned"
        /\ C16_Users = << >> => steamid3 = None
        /\ C16_Users /= << >> =>
              \E k \in 1..Len(C16_Users) :
                  /\ steamid3 = Some(<< C16_Users[k].user_id[3],
                                        C16_Users[k].user_id[4] >>)
                  /\ \A l \in 1..Len(C16_Users) :
                        C16_Value(C16_Users[l].timestamp)
                            <= C16_Value(C16_Users[k].timestamp)

\* Every user has a timestamp and all have as many digits, or none has one
C16_Comparable ==
    \/ \A k \in 1..Len(C16_Users) : C16_Users[k].timestamp = None
    \/ \A k, l \in 1..Len(C16_Users) :
          /\ C16_Users[k].timestamp /= None
          /\ C16_Users[l].timestamp /= None
          /\ Len(C16_Users[k].timestamp[1]) = Len(C16_Users[l].timestamp[1])

\* What holds: the same when the timestamps are comparable as text
C16_LatestLoginAmongComparable ==
    (login_pc \in { "returned", "raised" } /\ C16_Comparable) =>
        /\ login_pc = "returned"
        /\ C16_Users = << >> => steamid3 = None
        /\ C16_Users /= << >> =>
              \E k \in 1..Len(C16_Users) :
                  /\ steamid3 = Some(<< C16_Users[k].user_id[3],
                                        C16_Users[k].user_id[4] >>)
                  /\ \A l \in 1..Len(C16_Users) :
                        C16_Value(C16_Users[l].timestamp)
                            <= C16_Value(C16_Users[k].timestamp)

====
